---- MODULE Spec2Model ----
(***************************************************************************)
(* Multisig treasury (contracts/multisig-treasury/src/lib.rs): a roster of *)
(* signers proposes, approves, rejects and executes token transfers.       *)
(*                                                                         *)
(* The contract runs on the Soroban host.  Every public function is one    *)
(* invocation frame: it reads and writes the contract's storage, and when  *)
(* it panics the host traps the invocation and discards every write,       *)
(* event and sub-call effect the frame has made.  Each contract function   *)
(* is an operator from the storage it finds to the pair (err, st) it       *)
(* leaves when it returns or panics; Commit is the host's rule for what    *)
(* becomes durable.                                                        *)
(***************************************************************************)
EXTENDS Integers, Sequences, FiniteSets, TLC

\* ------------------------------------------------------------------ bounds
MaxSigners == 3      \* longest roster initialize is offered under Spec
MaxTx == 1           \* proposals accepted under Spec
MaxTime == 1         \* the ledger timestamp runs over 0..MaxTime

\* ----------------------------------------------------------------- values
\* Option<T>: None, Some(v)
None == << >>
Some(v) == << v >>
IsSome(o) == o # None
Unwrap(o) == o[1]
UnwrapOr(o, d) == IF o = None THEN d ELSE o[1]

\* Mutant: every account is found in every roster.
Contains_anyone(vec, a) == TRUE
\* Vec<Address>::contains and Vec::len as u32
Contains(vec, a) == \E i \in 1..Len(vec) : vec[i] = a
VecLen(vec) == Len(vec)

\* Account names; Outsider is in no roster.
AccountNames == << "A", "B", "C", "D", "E", "F", "G" >>
Outsider == "X"
Recipient1 == "R1"
Recipient2 == "R2"
TokenAddr == "TOKEN"
Roster(n) == SubSeq(AccountNames, 1, n)

\* enum TxStatus
TxStatus == { "Pending", "Approved", "Executed", "Rejected", "Expired" }

\* The outcome of an invocation: OK, or the message of the panic that ended it.
OK == "ok"
ErrAuth == "unauthorized"
ErrUnwrapNone == "unwrap on None"
ErrAlreadyInitialized == "already initialized"
ErrInvalidQuorum == "invalid required signers"
ErrNotSigner == "not a signer"
ErrInvalidAmount == "invalid amount"
ErrAlreadyVoted == "already voted"
ErrNotFound == "tx not found"
ErrNotPending == "tx not pending"
ErrExpired == "tx expired"
ErrNotApproved == "tx not approved"
ErrTransferFailed == "transfer failed"
ErrSubOverflow == "attempt to subtract with overflow"
\* The spec's InvalidStatus covers both status panics.
InvalidStatus == { ErrNotPending, ErrNotApproved }

\* u32 arithmetic.  The counters stay far below 2^32 (a roster bounds them), so
\* an increment is the integer's; a subtraction a - b that would go below zero
\* wraps to 2^32 - (b - a), which is above every quorum the model holds.
U32WrappingSubLess(a, b, c) == IF a >= b THEN a - b < c ELSE FALSE

\* ------------------------------------------------------------------ state
VARIABLES
    instance,      \* instance storage: Admin, Signers, RequiredSigners, TxCounter
    tx,            \* persistent storage, DataKey::Tx(id) -> TreasuryTx
    tx_approval,   \* persistent storage, the set of DataKey::TxApproval(id, signer) present
    events,        \* the events published, in order
    transfers,     \* the token transfers performed, in order
    now,           \* env.ledger().timestamp()
    last,          \* the last invocation and its outcome
    approve_ok,    \* history: (id, signer) -> number of approve_transaction calls that succeeded
    reject_ok,     \* history: (id, signer) -> number of reject_transaction calls that succeeded
    transfer_failed \* history: the ids whose execute_transaction met a refused transfer

vars == << instance, tx, tx_approval, events, transfers, now, last, approve_ok, reject_ok,
           transfer_failed >>

\* The storage an invocation frame works on.
Storage ==
    [ instance |-> instance, tx |-> tx, tx_approval |-> tx_approval,
      events |-> events, transfers |-> transfers ]

EmptyInstance ==
    [ Admin |-> None, Signers |-> None, RequiredSigners |-> None, TxCounter |-> None ]

Ret(st) == [ err |-> OK, st |-> st ]
Panic(st, msg) == [ err |-> msg, st |-> st ]

\* history counters
Count(f, k) == IF k \in DOMAIN f THEN f[k] ELSE 0
Bump(f, k) == (k :> (Count(f, k) + 1)) @@ f

\* --------------------------------------------------- the contract functions
\* The conditions the functions branch on.
\* Mutant: approve_transaction looks for no earlier vote.
HasVoted_never(st, tx_id, signer) == FALSE
\* Mutant: initialize never finds the contract initialized.
IsInitialized_never(st) == FALSE
\* storage().instance().has(&DataKey::Admin)
IsInitialized(st) == IsSome(st.instance.Admin)
\* Mutant: initialize refuses only a quorum of zero.
InvalidQuorum_zero_only(required, len) == required = 0
\* required == 0 || required > initial_signers.len()
InvalidQuorum(required, len) == required = 0 \/ required > len
\* Mutant: propose_transaction hands out the last id again.
NextTxId_reused(counter) == IF counter = 0 THEN 1 ELSE counter
\* tx_id = counter + 1
NextTxId(counter) == counter + 1
\* Mutant: the new record takes no snapshot of the quorum.
TreasuryTx_no_snapshot(tx_id, proposer, recipient, token, amount, description, required, timestamp, expires_in) ==
    [ tx_id |-> tx_id, proposer |-> proposer, recipient |-> recipient, token |-> token,
      amount |-> amount, description |-> description, status |-> "Pending",
      approvals |-> 0, rejections |-> 0, required_approvals |-> 1,
      created_at |-> timestamp, expires_at |-> timestamp + expires_in, executed_at |-> None ]
\* Mutant: the new record is stamped with an execution time at creation.
TreasuryTx_stamped(tx_id, proposer, recipient, token, amount, description, required, timestamp, expires_in) ==
    [ tx_id |-> tx_id, proposer |-> proposer, recipient |-> recipient, token |-> token,
      amount |-> amount, description |-> description, status |-> "Pending",
      approvals |-> 0, rejections |-> 0, required_approvals |-> required,
      created_at |-> timestamp, expires_at |-> timestamp + expires_in,
      executed_at |-> Some(timestamp) ]
\* The record propose_transaction builds: TreasuryTx { tx_id, proposer, ... }
TreasuryTx(tx_id, proposer, recipient, token, amount, description, required, timestamp, expires_in) ==
    [ tx_id |-> tx_id,
      proposer |-> proposer,
      recipient |-> recipient,
      token |-> token,
      amount |-> amount,
      description |-> description,
      status |-> "Pending",
      approvals |-> 0,
      rejections |-> 0,
      required_approvals |-> required,
      created_at |-> timestamp,
      expires_at |-> timestamp + expires_in,
      executed_at |-> None ]
\* Mutant: a vote is also taken on an Approved transaction.
IsPending_or_approved(status) == status \in { "Pending", "Approved" }
\* Mutant: a vote is also taken on a Rejected transaction.
IsPending_or_rejected(status) == status \in { "Pending", "Rejected" }
\* tx.status != TxStatus::Pending is what approve_transaction and
\* reject_transaction refuse
IsPending(status) == status = "Pending"
\* Mutant: an earlier vote counts only while the transaction is Pending, as
\* if the vote record were looked up after the status.
HasVoted_while_pending(st, tx_id, signer) ==
    /\ << tx_id, signer >> \in st.tx_approval
    /\ tx_id \in DOMAIN st.tx
    /\ st.tx[tx_id].status = "Pending"
\* storage().persistent().has(&DataKey::TxApproval(tx_id, signer))
HasVoted(st, tx_id, signer) == << tx_id, signer >> \in st.tx_approval
\* Mutant: the deadline itself is already too late.
IsExpired_inclusive(timestamp, expires_at) == timestamp >= expires_at
\* env.ledger().timestamp() > tx.expires_at
IsExpired(timestamp, expires_at) == timestamp > expires_at
\* Mutant: approve_transaction asks for more than the quorum.
QuorumReached_strict(approvals, required_approvals) == approvals > required_approvals
\* Mutant: approve_transaction settles for one approval less than the quorum.
QuorumReached_one_short(approvals, required_approvals) == approvals + 1 >= required_approvals
\* tx.approvals >= tx.required_approvals
QuorumReached(approvals, required_approvals) == approvals >= required_approvals
\* Mutant: execute_transaction lets an Executed transaction through again.
IsApproved_or_executed(status) == status \in { "Approved", "Executed" }
\* Mutant: execute_transaction also lets a Pending transaction through.
IsApproved_or_pending(status) == status \in { "Approved", "Pending" }
\* tx.status != TxStatus::Approved is what execute_transaction refuses
IsApproved(status) == status = "Approved"
\* Mutant: reject_transaction gives up when max_possible_approvals <= required.
QuorumUnreachable_inclusive(total_signers, rejections, required) ==
    total_signers - rejections <= required
\* Mutant: reject_transaction gives up when the rejections reach the quorum.
QuorumUnreachable_by_rejections(total_signers, rejections, required) ==
    rejections >= required
\* Mutant: reject_transaction gives up one rejection late.
QuorumUnreachable_late(total_signers, rejections, required) ==
    U32WrappingSubLess(total_signers + 1, rejections, required)
\* Mutant: reject_transaction never gives up.
QuorumUnreachable_never(total_signers, rejections, required) == FALSE
\* max_possible_approvals = total_signers - tx.rejections; max_possible_approvals < required
QuorumUnreachable(total_signers, rejections, required) ==
    U32WrappingSubLess(total_signers, rejections, required)

\* initialize(env, admin, initial_signers, required)
initialize(st, admin, initial_signers, required, auth) ==
    IF IsInitialized(st) THEN Panic(st, ErrAlreadyInitialized)
    ELSE IF ~auth THEN Panic(st, ErrAuth)
    ELSE IF InvalidQuorum(required, VecLen(initial_signers))
        THEN Panic(st, ErrInvalidQuorum)
    ELSE Ret([st EXCEPT !.instance =
                 [ Admin |-> Some(admin), Signers |-> Some(initial_signers),
                   RequiredSigners |-> Some(required), TxCounter |-> Some(0) ]])

\* Mutant: propose_transaction takes a missing roster for an open one and a
\* missing quorum for one.
propose_transaction_before_initialize(st, proposer, recipient, token, amount, description, expires_in, auth, timestamp) ==
    IF ~auth THEN Panic(st, ErrAuth)
    ELSE IF IsSome(st.instance.Signers) /\ ~Contains(Unwrap(st.instance.Signers), proposer)
        THEN Panic(st, ErrNotSigner)
    ELSE IF amount <= 0 THEN Panic(st, ErrInvalidAmount)
    ELSE
        LET tx_id == NextTxId(UnwrapOr(st.instance.TxCounter, 0))
            t == TreasuryTx(tx_id, proposer, recipient, token, amount, description,
                            UnwrapOr(st.instance.RequiredSigners, 1), timestamp, expires_in)
        IN  Ret([st EXCEPT
                   !.tx = (tx_id :> t) @@ @,
                   !.instance.TxCounter = Some(tx_id),
                   !.events = Append(@, [ topic |-> "proposed", data |-> << tx_id, proposer >> ])])
\* propose_transaction(env, proposer, recipient, token, amount, description, expires_in)
propose_transaction(st, proposer, recipient, token, amount, description, expires_in, auth, timestamp) ==
    IF ~auth THEN Panic(st, ErrAuth)
    ELSE IF st.instance.Signers = None THEN Panic(st, ErrUnwrapNone)
    ELSE IF ~Contains(Unwrap(st.instance.Signers), proposer) THEN Panic(st, ErrNotSigner)
    ELSE IF amount <= 0 THEN Panic(st, ErrInvalidAmount)
    ELSE
        LET counter == UnwrapOr(st.instance.TxCounter, 0)
            tx_id == NextTxId(counter)
        IN  IF st.instance.RequiredSigners = None THEN Panic(st, ErrUnwrapNone)
            ELSE
            LET required == Unwrap(st.instance.RequiredSigners)
                t == TreasuryTx(tx_id, proposer, recipient, token, amount, description,
                                required, timestamp, expires_in)
            IN  Ret([st EXCEPT
                       !.tx = (tx_id :> t) @@ @,
                       !.instance.TxCounter = Some(tx_id),
                       !.events = Append(@, [ topic |-> "proposed", data |-> << tx_id, proposer >> ])])

\* approve_transaction(env, signer, tx_id)
approve_transaction(st, signer, tx_id, auth, timestamp) ==
    IF ~auth THEN Panic(st, ErrAuth)
    ELSE IF st.instance.Signers = None THEN Panic(st, ErrUnwrapNone)
    ELSE IF ~Contains(Unwrap(st.instance.Signers), signer) THEN Panic(st, ErrNotSigner)
    ELSE IF HasVoted(st, tx_id, signer) THEN Panic(st, ErrAlreadyVoted)
    ELSE IF tx_id \notin DOMAIN st.tx THEN Panic(st, ErrNotFound)
    ELSE
        LET t == st.tx[tx_id] IN
        IF ~IsPending(t.status) THEN Panic(st, ErrNotPending)
        ELSE IF IsExpired(timestamp, t.expires_at)
            THEN \* the Expired record is written, then the function panics
                 Panic([st EXCEPT !.tx[tx_id].status = "Expired"], ErrExpired)
        ELSE
            LET approvals == t.approvals + 1
                status == IF QuorumReached(approvals, t.required_approvals) THEN "Approved" ELSE t.status
            IN  Ret([st EXCEPT
                       !.tx_approval = @ \cup { << tx_id, signer >> },
                       !.tx[tx_id].approvals = approvals,
                       !.tx[tx_id].status = status])

\* Mutant: a refused transfer is swallowed and the function carries on.
token_transfer_swallowed(st, token, from, to, amount, accepted) ==
    IF ~accepted THEN Ret(st)
    ELSE Ret([st EXCEPT !.transfers =
                 Append(@, [ token |-> token, from |-> from, to |-> to, amount |-> amount ])])
\* token::Client::transfer(from, to, amount): the token contract is another
\* contract; whether it accepts the transfer is an input of the invocation.
token_transfer(st, token, from, to, amount, accepted) ==
    IF ~accepted THEN Panic(st, ErrTransferFailed)
    ELSE Ret([st EXCEPT !.transfers =
                 Append(@, [ token |-> token, from |-> from, to |-> to, amount |-> amount ])])

ContractAddress == "TREASURY"

\* Mutant: execute_transaction refuses a transaction past its deadline.
execute_transaction_until_expiry(st, caller, tx_id, auth, timestamp, accepted) ==
    IF ~auth THEN Panic(st, ErrAuth)
    ELSE IF st.instance.Signers = None THEN Panic(st, ErrUnwrapNone)
    ELSE IF ~Contains(Unwrap(st.instance.Signers), caller) THEN Panic(st, ErrNotSigner)
    ELSE IF tx_id \notin DOMAIN st.tx THEN Panic(st, ErrNotFound)
    ELSE
        LET t == st.tx[tx_id] IN
        IF ~IsApproved(t.status) THEN Panic(st, ErrNotApproved)
        ELSE IF IsExpired(timestamp, t.expires_at) THEN Panic(st, ErrExpired)
        ELSE
            LET paid == token_transfer(st, t.token, ContractAddress, t.recipient, t.amount, accepted) IN
            IF paid.err # OK THEN paid
            ELSE Ret([paid.st EXCEPT
                        !.tx[tx_id].status = "Executed",
                        !.tx[tx_id].executed_at = Some(timestamp),
                        !.events = Append(@, [ topic |-> "executed", data |-> << tx_id, t.amount >> ])])
\* execute_transaction(env, caller, tx_id)
execute_transaction(st, caller, tx_id, auth, timestamp, accepted) ==
    IF ~auth THEN Panic(st, ErrAuth)
    ELSE IF st.instance.Signers = None THEN Panic(st, ErrUnwrapNone)
    ELSE IF ~Contains(Unwrap(st.instance.Signers), caller) THEN Panic(st, ErrNotSigner)
    ELSE IF tx_id \notin DOMAIN st.tx THEN Panic(st, ErrNotFound)
    ELSE
        LET t == st.tx[tx_id] IN
        IF ~IsApproved(t.status) THEN Panic(st, ErrNotApproved)
        ELSE
            LET paid == token_transfer(st, t.token, ContractAddress, t.recipient, t.amount, accepted) IN
            IF paid.err # OK THEN paid
            ELSE Ret([paid.st EXCEPT
                        !.tx[tx_id].status = "Executed",
                        !.tx[tx_id].executed_at = Some(timestamp),
                        !.events = Append(@, [ topic |-> "executed", data |-> << tx_id, t.amount >> ])])

\* Mutant: reject_transaction looks for the signer's vote record and leaves
\* one, as approve_transaction does.
reject_transaction_one_vote(st, signer, tx_id, auth, wraps) ==
    IF ~auth THEN Panic(st, ErrAuth)
    ELSE IF st.instance.Signers = None THEN Panic(st, ErrUnwrapNone)
    ELSE IF ~Contains(Unwrap(st.instance.Signers), signer) THEN Panic(st, ErrNotSigner)
    ELSE IF HasVoted(st, tx_id, signer) THEN Panic(st, ErrAlreadyVoted)
    ELSE IF tx_id \notin DOMAIN st.tx THEN Panic(st, ErrNotFound)
    ELSE
        LET t == st.tx[tx_id] IN
        IF ~IsPending(t.status) THEN Panic(st, ErrNotPending)
        ELSE
            LET rejections == t.rejections + 1
                total_signers == VecLen(Unwrap(st.instance.Signers))
            IN  IF st.instance.RequiredSigners = None THEN Panic(st, ErrUnwrapNone)
                ELSE IF total_signers < rejections /\ ~wraps THEN Panic(st, ErrSubOverflow)
                ELSE
                LET required == Unwrap(st.instance.RequiredSigners)
                    status == IF QuorumUnreachable(total_signers, rejections, required)
                              THEN "Rejected" ELSE t.status
                IN  Ret([st EXCEPT
                           !.tx_approval = @ \cup { << tx_id, signer >> },
                           !.tx[tx_id].rejections = rejections,
                           !.tx[tx_id].status = status])
\* Mutant: reject_transaction marks a transaction past its deadline Expired
\* and counts nothing.
reject_transaction_until_expiry(st, signer, tx_id, auth, wraps) ==
    IF ~auth THEN Panic(st, ErrAuth)
    ELSE IF st.instance.Signers = None THEN Panic(st, ErrUnwrapNone)
    ELSE IF ~Contains(Unwrap(st.instance.Signers), signer) THEN Panic(st, ErrNotSigner)
    ELSE IF tx_id \notin DOMAIN st.tx THEN Panic(st, ErrNotFound)
    ELSE
        LET t == st.tx[tx_id] IN
        IF ~IsPending(t.status) THEN Panic(st, ErrNotPending)
        ELSE IF IsExpired(now, t.expires_at)
            THEN Ret([st EXCEPT !.tx[tx_id].status = "Expired"])
        ELSE
            LET rejections == t.rejections + 1
                total_signers == VecLen(Unwrap(st.instance.Signers))
            IN  IF st.instance.RequiredSigners = None THEN Panic(st, ErrUnwrapNone)
                ELSE IF total_signers < rejections /\ ~wraps THEN Panic(st, ErrSubOverflow)
                ELSE
                LET required == Unwrap(st.instance.RequiredSigners)
                    status == IF QuorumUnreachable(total_signers, rejections, required)
                              THEN "Rejected" ELSE t.status
                IN  Ret([st EXCEPT
                           !.tx[tx_id].rejections = rejections,
                           !.tx[tx_id].status = status])
\* reject_transaction(env, signer, tx_id).  total_signers - tx.rejections is a
\* u32 subtraction: when it would go below zero the build either panics
\* (overflow checks on) or wraps (off); `wraps` says which.
reject_transaction(st, signer, tx_id, auth, wraps) ==
    IF ~auth THEN Panic(st, ErrAuth)
    ELSE IF st.instance.Signers = None THEN Panic(st, ErrUnwrapNone)
    ELSE IF ~Contains(Unwrap(st.instance.Signers), signer) THEN Panic(st, ErrNotSigner)
    ELSE IF tx_id \notin DOMAIN st.tx THEN Panic(st, ErrNotFound)
    ELSE
        LET t == st.tx[tx_id] IN
        IF ~IsPending(t.status) THEN Panic(st, ErrNotPending)
        ELSE
            LET rejections == t.rejections + 1
                total_signers == VecLen(Unwrap(st.instance.Signers))
            IN  IF st.instance.RequiredSigners = None THEN Panic(st, ErrUnwrapNone)
                ELSE IF total_signers < rejections /\ ~wraps THEN Panic(st, ErrSubOverflow)
                ELSE
                LET required == Unwrap(st.instance.RequiredSigners)
                    status == IF QuorumUnreachable(total_signers, rejections, required)
                              THEN "Rejected" ELSE t.status
                IN  Ret([st EXCEPT
                           !.tx[tx_id].rejections = rejections,
                           !.tx[tx_id].status = status])

\* get_transaction(env, tx_id) -> Option<TreasuryTx>
get_transaction(st, tx_id) ==
    IF tx_id \in DOMAIN st.tx THEN Some(st.tx[tx_id]) ELSE None

\* The host's frame rule: the frame's storage becomes durable when the
\* function returns, and is discarded when it panics.
Commit(pre, r) == IF r.err = OK THEN r.st ELSE pre


\* ----------------------------------------------------------------- inputs
Range(vec) == { vec[i] : i \in 1..Len(vec) }
\* A roster naming one account twice: initialize does not look for duplicates.
DupRoster == << "A", "A", "B" >>
Rosters == { Roster(n) : n \in 1..MaxSigners } \cup { DupRoster }
\* Every quorum from 0 to one more than the roster's length.
Configs == UNION { { [ signers |-> r, required |-> q ] : q \in 0..(Len(r) + 1) } : r \in Rosters }
\* What a proposal asks for: recipient, amount, lifetime.
Proposals == { [ recipient |-> Recipient1, amount |-> 100, expires_in |-> 1 ],
               [ recipient |-> Recipient2, amount |-> 250, expires_in |-> 0 ],
               [ recipient |-> Recipient1, amount |-> 0, expires_in |-> 1 ],
               [ recipient |-> Recipient2, amount |-> -5, expires_in |-> 0 ] }
\* The proposals with no lifetime, which expire as soon as the ledger
\* advances, and the ones propose_transaction refuses for their amount.
ShortProposals == { p \in Proposals : p.expires_in = 0 \/ p.amount <= 0 }
\* Who calls: every roster member and one account outside the roster, each
\* with its authorization, and the first account without it.
Accounts ==
    (IF instance.Signers = None THEN { AccountNames[1] } ELSE Range(Unwrap(instance.Signers)))
        \cup { Outsider }
Callers ==
    { [ account |-> a, auth |-> TRUE ] : a \in Accounts }
        \cup { [ account |-> AccountNames[1], auth |-> FALSE ] }
\* Who proposes: the first roster member, the outsider, and the first account
\* without its authorization.
Proposers == { c \in Callers : c.account \in { AccountNames[1], Outsider } }
TxIds(maxTx) == 1..maxTx
\* Two signers, every quorum.
PairRoster == << "A", "B" >>
PairConfigs == { [ signers |-> PairRoster, required |-> q ] : q \in 0..(Len(PairRoster) + 1) }
\* A board of five with a quorum of three or of four.
BoardRoster == << "A", "B", "C", "D", "E" >>
BoardConfigs == { [ signers |-> BoardRoster, required |-> q ] : q \in { 3, 4 } }

\* ---------------------------------------------------------------- actions
Idle == [ op |-> "none", caller |-> Outsider, auth |-> TRUE, accepted |-> TRUE, tx_id |-> 0, err |-> OK ]

Init ==
    /\ instance = EmptyInstance
    /\ tx = << >>
    /\ tx_approval = {}
    /\ events = << >>
    /\ transfers = << >>
    /\ now = 0
    /\ last = Idle
    /\ approve_ok = << >>
    /\ reject_ok = << >>
    /\ transfer_failed = {}

\* One invocation: the host commits or discards the frame, and the caller
\* sees the outcome.  Invocations are applied one at a time.
Invoke(r, op, caller, auth, accepted, id) ==
    LET c == Commit(Storage, r) IN
    /\ last = Idle
    /\ instance' = c.instance
    /\ tx' = c.tx
    /\ tx_approval' = c.tx_approval
    /\ events' = c.events
    /\ transfers' = c.transfers
    /\ last' = [ op |-> op, caller |-> caller, auth |-> auth, accepted |-> accepted,
                 tx_id |-> id, err |-> r.err ]
    /\ now' = now

Initialize(cfgs) ==
    \E c \in cfgs, auth \in BOOLEAN :
        /\ Invoke(initialize(Storage, c.signers[1], c.signers, c.required, auth),
                  "initialize", c.signers[1], auth, TRUE, 0)
        /\ UNCHANGED << approve_ok, reject_ok, transfer_failed >>

Propose(maxTx, proposals) ==
    \E c \in Proposers, p \in proposals :
        LET r == propose_transaction(Storage, c.account, p.recipient, TokenAddr, p.amount,
                                     "payment", p.expires_in, c.auth, now)
        IN  /\ UnwrapOr(instance.TxCounter, 0) < maxTx
            /\ Invoke(r, "propose", c.account, c.auth, TRUE,
                      IF r.err = OK THEN Unwrap(r.st.instance.TxCounter) ELSE 0)
            /\ UNCHANGED << approve_ok, reject_ok, transfer_failed >>

Approve(maxTx) ==
    \E c \in Callers, tx_id \in TxIds(maxTx) :
        LET r == approve_transaction(Storage, c.account, tx_id, c.auth, now) IN
        /\ Invoke(r, "approve", c.account, c.auth, TRUE, tx_id)
        /\ approve_ok' = IF r.err = OK THEN Bump(approve_ok, << tx_id, c.account >>) ELSE approve_ok
        /\ UNCHANGED << reject_ok, transfer_failed >>

Reject(maxTx) ==
    \E c \in Callers, tx_id \in TxIds(maxTx), wraps \in BOOLEAN :
        LET r == reject_transaction(Storage, c.account, tx_id, c.auth, wraps) IN
        /\ Invoke(r, "reject", c.account, c.auth, TRUE, tx_id)
        /\ reject_ok' = IF r.err = OK THEN Bump(reject_ok, << tx_id, c.account >>) ELSE reject_ok
        /\ UNCHANGED << approve_ok, transfer_failed >>

\* The token contract is consulted only for a transaction execute_transaction
\* finds Approved; only there does its answer vary.
TokenAnswers(tx_id) ==
    IF tx_id \in DOMAIN tx /\ tx[tx_id].status = "Approved" THEN BOOLEAN ELSE { TRUE }

Execute(maxTx) ==
    \E c \in Callers, tx_id \in TxIds(maxTx) :
        \E accepted \in TokenAnswers(tx_id) :
            LET r == execute_transaction(Storage, c.account, tx_id, c.auth, now, accepted) IN
            /\ Invoke(r, "execute", c.account, c.auth, accepted, tx_id)
            /\ transfer_failed' =
                   IF r.err = ErrTransferFailed THEN transfer_failed \cup { tx_id } ELSE transfer_failed
            /\ UNCHANGED << approve_ok, reject_ok >>

\* The caller has seen the outcome; the next invocation can be applied.
Return ==
    /\ last # Idle
    /\ last' = Idle
    /\ UNCHANGED << instance, tx, tx_approval, events, transfers, now, approve_ok, reject_ok, transfer_failed >>

\* The ledger closes and its timestamp advances.
Tick ==
    /\ last = Idle
    /\ now < MaxTime
    /\ now' = now + 1
    /\ UNCHANGED << instance, tx, tx_approval, events, transfers, last, approve_ok, reject_ok, transfer_failed >>

Next ==
    \/ Initialize(Configs)
    \/ Propose(MaxTx, Proposals)
    \/ Approve(MaxTx)
    \/ Reject(MaxTx)
    \/ Execute(MaxTx)
    \/ Return
    \/ Tick

Spec == Init /\ [][Next]_vars

\* Two signers and one transaction more than under Spec.
NextPair ==
    \/ Initialize(PairConfigs)
    \/ Propose(MaxTx + 1, ShortProposals)
    \/ Approve(MaxTx + 1)
    \/ Reject(MaxTx + 1)
    \/ Execute(MaxTx + 1)
    \/ Return
    \/ Tick

SpecPair == Init /\ [][NextPair]_vars

\* The board of five.
NextBoard ==
    \/ Initialize(BoardConfigs)
    \/ Propose(MaxTx, Proposals)
    \/ Approve(MaxTx)
    \/ Reject(MaxTx)
    \/ Execute(MaxTx)
    \/ Return
    \/ Tick

SpecBoard == Init /\ [][NextBoard]_vars

\* ================================================================= claims
\* What the claims speak of.
Initialized == IsSome(instance.Signers)
Signers == Unwrap(instance.Signers)
Quorum == Unwrap(instance.RequiredSigners)
AllAccounts == Range(AccountNames) \cup { Outsider }
\* The signers whose approve_transaction on id succeeded.
Approvers(id) == { a \in AllAccounts : Count(approve_ok, << id, a >>) > 0 }
\* This step is an invocation of op on transaction id.
Calls(op, id) == last = Idle /\ last'.op = op /\ last'.tx_id = id
\* ... made by a roster member with its authorization.
SignerCalls(op, id) == Calls(op, id) /\ last'.auth /\ Contains(Signers, last'.caller)

\* C1: for every roster and quorum q with 1 <= q <= |roster|, a transaction has
\* reached Approved (it is Approved, or Executed after that) if and only if the
\* number of distinct signers whose approve_transaction succeeded on it has
\* reached q; a transaction holding fewer is Pending or Rejected.
C1_ApprovedIffQuorum ==
    Initialized =>
        /\ 1 <= Quorum /\ Quorum <= Len(Signers)
        /\ \A id \in DOMAIN tx :
              /\ tx[id].status \in { "Approved", "Executed" }
                    <=> Cardinality(Approvers(id)) >= Quorum
              /\ tx[id].approvals = Cardinality(Approvers(id))

\* A quorum of two was reached by two signers after a rejection was counted.
C1_Witness ==
    /\ Initialized /\ Quorum = 2 /\ Signers = << "A", "B", "C" >>
    /\ \E id \in DOMAIN tx :
          /\ tx[id].status = "Approved"
          /\ Cardinality(Approvers(id)) = 2
          /\ tx[id].rejections = 1
          /\ last.op = "approve" /\ last.tx_id = id /\ last.err = OK


\* C2: execute_transaction by a roster signer on a transaction whose status is
\* not Approved (Pending, Rejected, Expired or Executed) fails with
\* InvalidStatus ("tx not approved"), performs no transfer, publishes nothing
\* and leaves every record as it was.
C2_ExecuteNeedsApproved ==
    [][ \A id \in DOMAIN tx :
            (SignerCalls("execute", id) /\ tx[id].status # "Approved")
                => /\ last'.err = ErrNotApproved
                   /\ transfers' = transfers
                   /\ tx' = tx
                   /\ events' = events
                   /\ tx_approval' = tx_approval ]_vars

\* execute_transaction was refused on a Rejected transaction.
C2_Witness ==
    /\ last.op = "execute" /\ last.err = ErrNotApproved /\ last.auth
    /\ last.tx_id \in DOMAIN tx
    /\ tx[last.tx_id].status = "Rejected"
    /\ transfers = << >>


\* C3: each signer contributes at most one vote to a transaction, approvals
\* and rejections together.
C3_OneVotePerSigner ==
    \A id \in DOMAIN tx : \A a \in AllAccounts :
        Count(approve_ok, << id, a >>) + Count(reject_ok, << id, a >>) <= 1

\* C4: approvals + rejections <= |roster| for every transaction, in every
\* reachable state.
C4_VotesWithinRoster ==
    Initialized =>
        \A id \in DOMAIN tx : tx[id].approvals + tx[id].rejections <= Len(Signers)

\* Votes of both kinds were counted and together fill the roster.
C4_Witness ==
    /\ Initialized
    /\ \E id \in DOMAIN tx :
          /\ tx[id].approvals > 0 /\ tx[id].rejections > 0
          /\ tx[id].approvals + tx[id].rejections = Len(Signers)
          /\ Signers = << "A", "B", "C" >>


\* C5: once approve_transaction(signer, id) has succeeded, every later
\* approve_transaction(signer, id) fails with AlreadyVoted ("already voted")
\* and changes neither the transaction records nor the vote records; no signer
\* has two successful approvals of one id.
C5_NoDoubleApprove ==
    [][ \A id \in TxIds(MaxTx + 1) : \A a \in AllAccounts :
            /\ (Calls("approve", id) /\ last'.auth /\ last'.caller = a
                    /\ Count(approve_ok, << id, a >>) > 0)
                  => /\ last'.err = ErrAlreadyVoted
                     /\ tx' = tx
                     /\ tx_approval' = tx_approval
                     /\ approve_ok' = approve_ok
            /\ Count(approve_ok', << id, a >>) <= 1 ]_vars

\* A signer's second approval was refused on a transaction that is still
\* Pending, while another transaction, which the other signer has approved
\* and it has not, is open as well.
C5_Witness ==
    /\ last.op = "approve" /\ last.err = ErrAlreadyVoted
    /\ last.tx_id \in DOMAIN tx
    /\ tx[last.tx_id].status = "Pending"
    /\ Count(approve_ok, << last.tx_id, last.caller >>) = 1
    /\ \E other \in DOMAIN tx :
          /\ other # last.tx_id
          /\ << other, last.caller >> \notin tx_approval
          /\ tx[other].approvals = 1

\* C6: a successful reject_transaction acts on a Pending transaction, adds one
\* rejection, and leaves it Rejected if and only if |roster| - rejections is
\* below the transaction's required_approvals, Pending otherwise.  With five
\* signers and a quorum of three the third rejection, and no earlier one,
\* rejects it, and a vote attempted after that fails with InvalidStatus
\* ("tx not pending").
C6_EarlyTermination ==
    [][ \A id \in DOMAIN tx :
            /\ (Calls("reject", id) /\ last'.err = OK)
                  => /\ tx[id].status = "Pending"
                     /\ tx'[id].rejections = tx[id].rejections + 1
                     /\ tx'[id].status \in { "Pending", "Rejected" }
                     /\ tx'[id].status = "Rejected"
                           <=> Len(Signers) - tx'[id].rejections < tx'[id].required_approvals
                     /\ (Len(Signers) = 5 /\ tx[id].required_approvals = 3)
                           => (tx'[id].status = "Rejected" <=> tx'[id].rejections = 3)
            /\ (SignerCalls("reject", id) /\ tx[id].status = "Rejected")
                  => last'.err = ErrNotPending /\ tx' = tx
            /\ (SignerCalls("approve", id) /\ tx[id].status = "Rejected"
                    /\ last'.caller \notin Approvers(id))
                  => last'.err = ErrNotPending /\ tx' = tx /\ tx_approval' = tx_approval ]_vars

\* Five signers, quorum three: three rejections and no approval rejected the
\* transaction, and a vote attempted afterwards was refused.
C6_Witness ==
    /\ Initialized /\ Len(Signers) = 5 /\ Quorum = 3
    /\ last.op \in { "approve", "reject" } /\ last.err = ErrNotPending
    /\ last.tx_id \in DOMAIN tx
    /\ tx[last.tx_id].status = "Rejected"
    /\ tx[last.tx_id].rejections = 3
    /\ tx[last.tx_id].approvals = 0

\* The scenario's board: roster [A,B,C,D,E], required = 4.
BoardOfFour == Initialized /\ Signers = BoardRoster /\ Quorum = 4
\* Exactly the accounts of `who` have rejected id, once each, and nobody has approved it.
RejectedOnlyBy(id, who) ==
    /\ Approvers(id) = {}
    /\ \A a \in AllAccounts : Count(reject_ok, << id, a >>) = (IF a \in who THEN 1 ELSE 0)

\* C7 as stated: on the board of five with required = 4, the rejections of B,
\* then C, then D all succeed and leave rejections = 3 and status Rejected, and
\* A's approval after them fails with InvalidStatus.
C7_ThreeRejectionsSucceed ==
    [][ \A id \in DOMAIN tx : BoardOfFour =>
            /\ (SignerCalls("reject", id) /\ last'.caller = "B" /\ RejectedOnlyBy(id, {}))
                  => last'.err = OK
            /\ (SignerCalls("reject", id) /\ last'.caller = "C" /\ RejectedOnlyBy(id, { "B" }))
                  => last'.err = OK
            /\ (SignerCalls("reject", id) /\ last'.caller = "D" /\ RejectedOnlyBy(id, { "B", "C" }))
                  => /\ last'.err = OK
                     /\ tx'[id].rejections = 3
                     /\ tx'[id].status = "Rejected"
            /\ (SignerCalls("approve", id) /\ last'.caller = "A"
                    /\ RejectedOnlyBy(id, { "B", "C", "D" }))
                  => last'.err = ErrNotPending ]_vars

\* C7 as amended: on the board of five with required = 4, the rejections of B
\* and then C succeed; C's leaves rejections = 2 and status Rejected (5 - 2 = 3
\* is below 4); D's rejection and A's approval after them both fail with
\* InvalidStatus and change nothing.
C7_TwoRejectionsSuffice ==
    [][ \A id \in DOMAIN tx : BoardOfFour =>
            /\ (SignerCalls("reject", id) /\ last'.caller = "B" /\ RejectedOnlyBy(id, {}))
                  => /\ last'.err = OK
                     /\ tx'[id].rejections = 1
                     /\ tx'[id].status = "Pending"
            /\ (SignerCalls("reject", id) /\ last'.caller = "C" /\ RejectedOnlyBy(id, { "B" }))
                  => /\ last'.err = OK
                     /\ tx'[id].rejections = 2
                     /\ tx'[id].status = "Rejected"
            /\ (SignerCalls("reject", id) /\ last'.caller = "D" /\ RejectedOnlyBy(id, { "B", "C" }))
                  => last'.err = ErrNotPending /\ tx' = tx
            /\ (SignerCalls("approve", id) /\ last'.caller = "A" /\ RejectedOnlyBy(id, { "B", "C" }))
                  => last'.err = ErrNotPending /\ tx' = tx /\ tx_approval' = tx_approval
            /\ ~RejectedOnlyBy(id, { "B", "C", "D" })' ]_vars

\* After B's and C's rejections the transaction is Rejected with two
\* rejections, and D's rejection was refused.
C7_Witness ==
    /\ BoardOfFour
    /\ last.op = "reject" /\ last.caller = "D" /\ last.auth /\ last.err = ErrNotPending
    /\ last.tx_id \in DOMAIN tx
    /\ RejectedOnlyBy(last.tx_id, { "B", "C" })
    /\ tx[last.tx_id].rejections = 2
    /\ tx[last.tx_id].status = "Rejected"

\* C8: an approve_transaction by a roster signer that has not voted, on a
\* Pending transaction with now > expires_at, fails with Expired, records no
\* vote, and leaves the stored status Expired (so that the next approval meets
\* InvalidStatus).
C8_ExpiryIsDurable ==
    [][ \A id \in DOMAIN tx :
            (SignerCalls("approve", id) /\ tx[id].status = "Pending"
                /\ << id, last'.caller >> \notin tx_approval /\ now > tx[id].expires_at)
              => /\ last'.err = ErrExpired
                 /\ tx_approval' = tx_approval
                 /\ tx'[id].status = "Expired" ]_vars

\* C9: when the token refuses the transfer inside execute_transaction the call
\* fails and nothing durable changes: the transaction stays Approved with
\* executed_at unset, no transfer is recorded and no event published; an
\* execute_transaction on an Approved transaction whose transfer is accepted
\* succeeds and leaves it Executed, also after a refused one.
C9_FailedTransferChangesNothing ==
    [][ \A id \in DOMAIN tx :
            (SignerCalls("execute", id) /\ tx[id].status = "Approved")
              => IF last'.accepted
                 THEN /\ last'.err = OK
                      /\ tx'[id].status = "Executed"
                      /\ tx'[id].executed_at = Some(now)
                 ELSE /\ last'.err = ErrTransferFailed
                      /\ tx' = tx
                      /\ tx'[id].status = "Approved"
                      /\ tx'[id].executed_at = None
                      /\ transfers' = transfers
                      /\ events' = events
                      /\ instance' = instance
                      /\ tx_approval' = tx_approval ]_vars

\* A transaction whose transfer was once refused has been executed by a later call.
C9_Witness ==
    /\ last.op = "execute" /\ last.err = OK
    /\ last.tx_id \in transfer_failed
    /\ tx[last.tx_id].status = "Executed"
    /\ Len(transfers) = 1

\* The transfers recorded to `to` of `amount`, and the Executed transactions paying that.
TransfersOf(to, amount) ==
    Cardinality({ i \in 1..Len(transfers) :
                    /\ transfers[i].to = to /\ transfers[i].amount = amount
                    /\ transfers[i].from = ContractAddress /\ transfers[i].token = TokenAddr })
ExecutedPaying(to, amount) ==
    Cardinality({ id \in DOMAIN tx :
                    /\ tx[id].status = "Executed"
                    /\ tx[id].recipient = to /\ tx[id].amount = amount })
TransfersMatchExecuted ==
    /\ Len(transfers) = Cardinality({ id \in DOMAIN tx : tx[id].status = "Executed" })
    /\ \A p \in Proposals : TransfersOf(p.recipient, p.amount) = ExecutedPaying(p.recipient, p.amount)

\* C10: the transfers performed are exactly one per Executed transaction, of
\* its amount to its recipient, and an execute_transaction on a transaction
\* that is already Executed fails with InvalidStatus ("tx not approved") and
\* transfers nothing.
C10_TransferAtMostOnce ==
    [][ /\ TransfersMatchExecuted'
        /\ \A id \in DOMAIN tx :
              (SignerCalls("execute", id) /\ tx[id].status = "Executed")
                 => /\ last'.err = ErrNotApproved
                    /\ transfers' = transfers
                    /\ tx' = tx ]_vars

\* An executed transaction was offered to execute_transaction again.
C10_Witness ==
    /\ last.op = "execute" /\ last.err = ErrNotApproved /\ last.auth
    /\ last.tx_id \in DOMAIN tx
    /\ tx[last.tx_id].status = "Executed"
    /\ Len(transfers) = 1
    /\ transfers[1].amount = tx[last.tx_id].amount
    /\ transfers[1].to = tx[last.tx_id].recipient

\* The statuses a transaction never leaves, by the spec.
Terminal == { "Executed", "Rejected", "Expired" }
\* The status changes the spec allows.
AllowedChanges ==
    { << "Pending", "Approved" >>, << "Pending", "Rejected" >>,
      << "Pending", "Expired" >>, << "Approved", "Executed" >> }
\* Everything an invocation can make durable.
Durable == << instance, tx, tx_approval, events, transfers >>

\* C11: in every step a transaction's status either stays as it is or changes
\* by Pending -> Approved, Pending -> Rejected, Pending -> Expired or
\* Approved -> Executed; a record is created Pending and none disappears.
C11_AllowedStatusChanges ==
    [][ /\ \A id \in DOMAIN tx :
              /\ id \in DOMAIN tx'
              /\ tx'[id].status # tx[id].status
                    => << tx[id].status, tx'[id].status >> \in AllowedChanges
        /\ \A id \in DOMAIN tx' \ DOMAIN tx : tx'[id].status = "Pending" ]_vars

\* A transaction that was Approved by a vote has been Executed, and a vote on
\* it was refused afterwards.
C11_Witness ==
    /\ last.op \in { "approve", "reject" } /\ last.auth /\ last.err = ErrNotPending
    /\ last.tx_id \in DOMAIN tx
    /\ tx[last.tx_id].status = "Executed"
    /\ tx[last.tx_id].approvals >= 1

\* C12: a record whose status is Executed, Rejected or Expired is the same
\* record after every step, whatever the call and whoever makes it.
C12_TerminalIsImmutable ==
    [][ \A id \in DOMAIN tx :
            tx[id].status \in Terminal
                => id \in DOMAIN tx' /\ tx'[id] = tx[id] ]_vars

\* A roster member's rejection of a Rejected transaction was refused, at a
\* later ledger time than the one the transaction was created at.
C12_Witness ==
    /\ last.op = "reject" /\ last.auth /\ last.err = ErrNotPending
    /\ Initialized /\ Contains(Signers, last.caller)
    /\ last.tx_id \in DOMAIN tx
    /\ tx[last.tx_id].status = "Rejected"
    /\ now > tx[last.tx_id].created_at

\* C13: with a roster in place, a propose, approve, reject or execute call
\* authorized by an account that is not in the roster fails with NotSigner
\* ("not a signer") and changes nothing durable: instance storage (the
\* counter), transaction records, vote records, events and transfers.
C13_OutsiderIsRefused ==
    [][ (/\ last = Idle
         /\ last'.op \in { "propose", "approve", "reject", "execute" }
         /\ last'.auth
         /\ Initialized
         /\ last'.caller \notin Range(Signers))
            => /\ last'.err = ErrNotSigner
               /\ Durable' = Durable ]_vars

\* An outsider's execute_transaction on an Approved transaction was refused
\* and nothing was transferred.
C13_Witness ==
    /\ last.op = "execute" /\ last.auth /\ last.err = ErrNotSigner
    /\ Initialized /\ last.caller \notin Range(Signers)
    /\ last.tx_id \in DOMAIN tx
    /\ tx[last.tx_id].status = "Approved"
    /\ transfers = << >>

\* C14: a failing initialize, propose, approve, reject or execute call leaves
\* everything durable as it was, except that approve_transaction failing with
\* Expired ("tx expired") changes the status of that one transaction to
\* Expired and nothing else.
C14_FailuresChangeNothingButExpiry ==
    [][ (last = Idle /\ last'.op # "none" /\ last'.err # OK)
            => IF last'.op = "approve" /\ last'.err = ErrExpired
               THEN /\ tx' = [tx EXCEPT ![last'.tx_id].status = "Expired"]
                    /\ tx' # tx
                    /\ << instance, tx_approval, events, transfers >>'
                          = << instance, tx_approval, events, transfers >>
               ELSE Durable' = Durable ]_vars

\* The stored transaction counter, and the "proposed" events published so far.
Counter == UnwrapOr(instance.TxCounter, 0)
ProposedEvents == Cardinality({ i \in 1..Len(events) : events[i].topic = "proposed" })

\* C15: a successful propose_transaction returns the stored counter + 1, which
\* is the number of successful proposals so far, stores it as the counter and
\* creates the record of that id, which did not exist, leaving every other
\* record alone; a failed propose_transaction changes neither the counter nor
\* the records; the counter never goes down; and after every step a record
\* exists for id i exactly when 1 <= i <= counter.
C15_IdsAreSequential ==
    [][ /\ (last = Idle /\ last'.op = "propose" /\ last'.err = OK)
              => /\ last'.tx_id = Counter + 1
                 /\ last'.tx_id = ProposedEvents'
                 /\ Counter' = last'.tx_id
                 /\ last'.tx_id \notin DOMAIN tx
                 /\ DOMAIN tx' = DOMAIN tx \cup { last'.tx_id }
                 /\ tx'[last'.tx_id].tx_id = last'.tx_id
                 /\ \A id \in DOMAIN tx : tx'[id] = tx[id]
        /\ (last = Idle /\ last'.op = "propose" /\ last'.err # OK)
              => /\ last'.err \in { ErrAuth, ErrUnwrapNone, ErrNotSigner, ErrInvalidAmount }
                 /\ instance' = instance
                 /\ tx' = tx
        /\ Counter' >= Counter
        /\ DOMAIN tx' = 1..Counter' ]_vars

\* The second successful proposal was given id 2.
C15_Witness ==
    /\ last.op = "propose" /\ last.err = OK /\ last.tx_id = 2
    /\ Counter = 2
    /\ DOMAIN tx = { 1, 2 }
    /\ tx[1].tx_id = 1 /\ tx[2].tx_id = 2

\* C16: the record propose_transaction creates carries the quorum stored at
\* that moment as its required_approvals, and no step changes the
\* required_approvals of an existing record.
C16_RequiredApprovalsIsFixed ==
    [][ /\ \A id \in DOMAIN tx :
              id \in DOMAIN tx' /\ tx'[id].required_approvals = tx[id].required_approvals
        /\ \A id \in DOMAIN tx' \ DOMAIN tx :
              /\ last'.op = "propose"
              /\ tx'[id].required_approvals = Quorum ]_vars

\* A transaction proposed under a quorum of two was rejected once, approved
\* twice and executed, and still asks for two approvals.
C16_Witness ==
    /\ Initialized /\ Quorum = 2
    /\ last.op = "execute" /\ last.err = OK
    /\ last.tx_id \in DOMAIN tx
    /\ tx[last.tx_id].status = "Executed"
    /\ tx[last.tx_id].rejections = 1
    /\ tx[last.tx_id].approvals = 2
    /\ tx[last.tx_id].required_approvals = 2

\* C17: after every step executed_at is set exactly on the Executed records;
\* it is set by the step that takes a record from Approved to Executed, to the
\* ledger time of that step; and once set it keeps its value.
C17_ExecutedAtSetOnce ==
    [][ /\ \A id \in DOMAIN tx' :
              IsSome(tx'[id].executed_at) <=> tx'[id].status = "Executed"
        /\ \A id \in DOMAIN tx :
              /\ IsSome(tx[id].executed_at) => tx'[id].executed_at = tx[id].executed_at
              /\ (tx[id].executed_at = None /\ IsSome(tx'[id].executed_at))
                    => /\ last'.op = "execute" /\ last'.err = OK /\ last'.tx_id = id
                       /\ tx[id].status = "Approved"
                       /\ tx'[id].status = "Executed"
                       /\ tx'[id].executed_at = Some(now) ]_vars

\* A transaction executed at time 0 was offered to execute_transaction again
\* at time 1 and keeps executed_at = 0.
C17_Witness ==
    /\ last.op = "execute" /\ last.auth /\ last.err = ErrNotApproved
    /\ last.tx_id \in DOMAIN tx
    /\ tx[last.tx_id].status = "Executed"
    /\ tx[last.tx_id].executed_at = Some(0)
    /\ now = 1

\* C18: an initialize call on an initialized contract fails with
\* AlreadyInitialized ("already initialized"), whatever roster and quorum it
\* brings and whether or not it is authorized, and changes nothing durable;
\* an initialize call succeeds only on a contract that is not initialized.
C18_InitializeOnce ==
    [][ (last = Idle /\ last'.op = "initialize")
            => /\ Initialized
                    => /\ last'.err = ErrAlreadyInitialized
                       /\ Durable' = Durable
               /\ last'.err = OK => ~Initialized /\ Initialized' ]_vars

\* initialize was refused on a contract that holds an executed transaction.
C18_Witness ==
    /\ last.op = "initialize" /\ last.err = ErrAlreadyInitialized
    /\ Initialized /\ Counter = 1
    /\ tx[1].status = "Executed"
    /\ Len(transfers) = 1

\* What an authorized initialize(c.signers, c.required) does to the storage
\* as it stands.
InitializeWith(c) == initialize(Storage, c.signers[1], c.signers, c.required, TRUE)

\* C19: the stored quorum of an initialized contract satisfies
\* 1 <= required <= |roster|; on a contract that is not initialized, an
\* authorized initialize with required = 0 or required > |roster| fails with
\* InvalidQuorum ("invalid required signers") and leaves the storage as it
\* was, and one with 1 <= required <= |roster| succeeds and stores that roster
\* and quorum, so a failed initialize can be followed by a successful one.
C19_QuorumWithinRoster ==
    /\ Initialized => 1 <= Quorum /\ Quorum <= Len(Signers)
    /\ ~Initialized =>
          \A c \in Configs :
              LET r == InitializeWith(c) IN
              IF c.required = 0 \/ c.required > Len(c.signers)
              THEN r.err = ErrInvalidQuorum /\ Commit(Storage, r) = Storage
              ELSE /\ r.err = OK
                   /\ Commit(Storage, r).instance.Signers = Some(c.signers)
                   /\ Commit(Storage, r).instance.RequiredSigners = Some(c.required)

\* An initialize was refused for its quorum, and the contract is still open
\* to a valid one.
C19_Witness ==
    /\ last.op = "initialize" /\ last.auth /\ last.err = ErrInvalidQuorum
    /\ ~Initialized
    /\ instance = EmptyInstance
    /\ \E c \in Configs : InitializeWith(c).err = OK

\* C20: the roster of an initialized contract names no account twice.
C20_RosterIsASet ==
    Initialized => Cardinality(Range(Signers)) = Len(Signers)

\* The successful votes of account a on transaction id, of both kinds.
Votes(id, a) == Count(approve_ok, << id, a >>) + Count(reject_ok, << id, a >>)

\* C21: reject_transaction by a roster signer on a Pending transaction
\* succeeds whatever that signer has voted on it before, adds one rejection
\* and neither reads nor writes the vote records; and a roster signer who has
\* rejected a Pending transaction, and holds no approval of it, can still
\* approve it before its deadline.
C21_RejectIgnoresEarlierVotes ==
    [][ \A id \in DOMAIN tx :
            /\ (SignerCalls("reject", id) /\ tx[id].status = "Pending")
                  => /\ last'.err = OK
                     /\ tx'[id].rejections = tx[id].rejections + 1
                     /\ tx'[id].approvals = tx[id].approvals
                     /\ tx_approval' = tx_approval
            /\ (SignerCalls("approve", id) /\ tx[id].status = "Pending"
                    /\ Count(reject_ok, << id, last'.caller >>) > 0
                    /\ << id, last'.caller >> \notin tx_approval
                    /\ now <= tx[id].expires_at)
                  => /\ last'.err = OK
                     /\ tx'[id].approvals = tx[id].approvals + 1 ]_vars

\* On a roster of three with a quorum of two, A approved the transaction and
\* then rejected it twice; nobody else voted, and it is Rejected.
C21_Witness ==
    /\ Initialized /\ Signers = << "A", "B", "C" >> /\ Quorum = 2
    /\ last.op = "reject" /\ last.caller = "A" /\ last.err = OK
    /\ last.tx_id \in DOMAIN tx
    /\ tx[last.tx_id].status = "Rejected"
    /\ Count(approve_ok, << last.tx_id, "A" >>) = 1
    /\ Count(reject_ok, << last.tx_id, "A" >>) = 2
    /\ \A a \in AllAccounts \ { "A" } : Votes(last.tx_id, a) = 0

\* C22: execute_transaction by a roster signer on an Approved transaction
\* whose deadline has passed (now > expires_at), with the token accepting the
\* transfer, succeeds: the transfer of its amount to its recipient is
\* performed and the transaction is Executed at that time.
C22_ExecuteAfterDeadline ==
    [][ \A id \in DOMAIN tx :
            (SignerCalls("execute", id) /\ tx[id].status = "Approved"
                /\ now > tx[id].expires_at /\ last'.accepted)
              => /\ last'.err = OK
                 /\ tx'[id].status = "Executed"
                 /\ tx'[id].executed_at = Some(now)
                 /\ transfers' = Append(transfers,
                        [ token |-> tx[id].token, from |-> ContractAddress,
                          to |-> tx[id].recipient, amount |-> tx[id].amount ]) ]_vars

\* A transaction was executed after its deadline.
C22_Witness ==
    /\ last.op = "execute" /\ last.err = OK
    /\ last.tx_id \in DOMAIN tx
    /\ tx[last.tx_id].status = "Executed"
    /\ Unwrap(tx[last.tx_id].executed_at) > tx[last.tx_id].expires_at
    /\ Len(transfers) = 1

\* C23: a step that leaves a transaction Expired which was not Expired before
\* is an approve_transaction on a Pending transaction with now > expires_at;
\* reject_transaction and execute_transaction leave no transaction Expired
\* that was not; and reject_transaction by a roster signer on a Pending
\* transaction with now > expires_at succeeds, adds one rejection and leaves
\* it Rejected exactly when |roster| - rejections is below the quorum.
C23_OnlyApproveExpires ==
    [][ \A id \in DOMAIN tx' :
            /\ (tx'[id].status = "Expired" /\ (id \in DOMAIN tx => tx[id].status # "Expired"))
                  => /\ id \in DOMAIN tx
                     /\ last'.op = "approve" /\ last'.tx_id = id
                     /\ tx[id].status = "Pending"
                     /\ now > tx[id].expires_at
            /\ (id \in DOMAIN tx /\ SignerCalls("reject", id) /\ tx[id].status = "Pending"
                    /\ now > tx[id].expires_at)
                  => /\ last'.err = OK
                     /\ tx'[id].rejections = tx[id].rejections + 1
                     /\ tx'[id].status =
                           (IF Len(Signers) - tx'[id].rejections < Quorum
                            THEN "Rejected" ELSE "Pending") ]_vars

\* After the deadline a first rejection was counted and left the transaction
\* Pending, and a second one rejected it.
C23_Witness ==
    /\ last.op = "reject" /\ last.err = OK
    /\ last.tx_id \in DOMAIN tx
    /\ now > tx[last.tx_id].expires_at
    /\ tx[last.tx_id].created_at = tx[last.tx_id].expires_at
    /\ tx[last.tx_id].status = "Rejected"
    /\ tx[last.tx_id].rejections = 2
    /\ tx[last.tx_id].approvals = 1

\* What approve_transaction(a, id) answers, by the order the claim gives: the
\* first of NotSigner, AlreadyVoted, NotFound, InvalidStatus, Expired that
\* applies, or success.
FirstFailure(a, id) ==
    IF a \notin Range(Signers) THEN ErrNotSigner
    ELSE IF << id, a >> \in tx_approval THEN ErrAlreadyVoted
    ELSE IF id \notin DOMAIN tx THEN ErrNotFound
    ELSE IF tx[id].status # "Pending" THEN ErrNotPending
    ELSE IF now > tx[id].expires_at THEN ErrExpired
    ELSE OK

\* C24: with a roster in place, an authorized approve_transaction ends with
\* the first failure in the order NotSigner, AlreadyVoted, NotFound,
\* InvalidStatus ("tx not pending"), Expired, and succeeds when none applies;
\* so a signer approving an id never proposed meets NotFound, and a signer
\* who has approved meets AlreadyVoted whatever the status and the time.
C24_ApprovePreconditionOrder ==
    [][ \A id \in TxIds(MaxTx) :
            (Calls("approve", id) /\ last'.auth /\ Initialized)
               => /\ last'.err = FirstFailure(last'.caller, id)
                  /\ (Contains(Signers, last'.caller) /\ id \notin DOMAIN tx)
                        => last'.err = ErrNotFound
                  /\ Count(approve_ok, << id, last'.caller >>) > 0
                        => last'.err = ErrAlreadyVoted ]_vars

\* A signer whose approval had made the transaction Approved approved it
\* again after its deadline and met AlreadyVoted.
C24_Witness ==
    /\ last.op = "approve" /\ last.auth /\ last.err = ErrAlreadyVoted
    /\ last.tx_id \in DOMAIN tx
    /\ tx[last.tx_id].status = "Approved"
    /\ now > tx[last.tx_id].expires_at
    /\ Count(approve_ok, << last.tx_id, last.caller >>) = 1

\* C25: approve_transaction by a roster signer with no vote record on a
\* Pending transaction succeeds when now <= expires_at, the deadline itself
\* included: it adds one approval and the signer's vote record; when
\* now > expires_at it fails with Expired and changes neither approvals nor
\* the vote records.
C25_ExpiryIsStrict ==
    [][ \A id \in DOMAIN tx :
            (SignerCalls("approve", id) /\ tx[id].status = "Pending"
                /\ << id, last'.caller >> \notin tx_approval)
              => IF now <= tx[id].expires_at
                 THEN /\ last'.err = OK
                      /\ tx'[id].approvals = tx[id].approvals + 1
                      /\ tx_approval' = tx_approval \cup { << id, last'.caller >> }
                 ELSE /\ last'.err = ErrExpired
                      /\ tx'[id].approvals = tx[id].approvals
                      /\ tx_approval' = tx_approval ]_vars

\* A transaction proposed at time 1 with lifetime 0 was approved at time 1.
C25_Witness ==
    /\ last.op = "approve" /\ last.err = OK
    /\ last.tx_id \in DOMAIN tx
    /\ now = 1
    /\ tx[last.tx_id].created_at = now
    /\ tx[last.tx_id].expires_at = now
    /\ tx[last.tx_id].approvals = 1
    /\ << last.tx_id, last.caller >> \in tx_approval

\* The accounts holding a vote record for transaction id.
Recorded(id) == { a \in AllAccounts : << id, a >> \in tx_approval }

\* C26: for every transaction approvals is the number of vote records stored
\* under its id; every vote record is that of a roster signer and of an id
\* that has a transaction record.
C26_ApprovalsAreVoteRecords ==
    /\ \A id \in DOMAIN tx : tx[id].approvals = Cardinality(Recorded(id))
    /\ \A v \in tx_approval :
          /\ v[1] \in DOMAIN tx
          /\ Initialized /\ v[2] \in Range(Signers)

\* Two signers of three hold the two vote records of a transaction that also
\* counts a rejection.
C26_Witness ==
    /\ Initialized /\ Signers = << "A", "B", "C" >>
    /\ \E id \in DOMAIN tx :
          /\ tx[id].approvals = 2
          /\ Cardinality(Recorded(id)) = 2
          /\ tx[id].rejections >= 1
          /\ Cardinality(tx_approval) = 2

\* C27: for every transaction approvals <= required_approvals, and its status
\* is Approved or Executed exactly when approvals = required_approvals; the
\* transfers performed are as many as the Executed transactions, so none was
\* performed for a transaction holding fewer approvals than it requires.
C27_ApprovalsStopAtQuorum ==
    /\ \A id \in DOMAIN tx :
          /\ tx[id].approvals <= tx[id].required_approvals
          /\ tx[id].status \in { "Approved", "Executed" }
                <=> tx[id].approvals = tx[id].required_approvals
    /\ Len(transfers) = Cardinality({ id \in DOMAIN tx : tx[id].status = "Executed" })
    /\ \A i \in 1..Len(transfers) :
          \E id \in DOMAIN tx :
              /\ tx[id].approvals = tx[id].required_approvals
              /\ transfers[i].to = tx[id].recipient
              /\ transfers[i].amount = tx[id].amount

\* A transaction requiring the approvals of all three signers was paid out.
C27_Witness ==
    /\ Initialized /\ Len(Signers) = 3 /\ Quorum = 3
    /\ Len(transfers) = 1
    /\ \E id \in DOMAIN tx :
          /\ tx[id].status = "Executed"
          /\ tx[id].approvals = 3
          /\ tx[id].required_approvals = 3

\* C28: for every transaction rejections <= |roster| - required_approvals + 1
\* <= |roster|, so total_signers - rejections is never below zero when
\* reject_transaction computes it, and no call ends on that subtraction.
C28_NoUnderflow ==
    /\ Initialized =>
          \A id \in DOMAIN tx :
              /\ tx[id].rejections <= Len(Signers) - tx[id].required_approvals + 1
              /\ Len(Signers) - tx[id].required_approvals + 1 <= Len(Signers)
    /\ last.err # ErrSubOverflow

\* With a quorum of one on a roster of three, one signer alone rejected three
\* times: rejections equals |roster|.
C28_Witness ==
    /\ Initialized /\ Signers = << "A", "B", "C" >> /\ Quorum = 1
    /\ last.op = "reject" /\ last.err = OK
    /\ last.tx_id \in DOMAIN tx
    /\ tx[last.tx_id].rejections = 3
    /\ Count(reject_ok, << last.tx_id, "A" >>) = 3
    /\ tx[last.tx_id].status = "Rejected"

\* C29: as long as no initialize has succeeded, every propose, approve,
\* reject and execute call has failed and the storage is empty: no
\* transaction record, no vote record, no transfer, no event, no counter.
C29_NothingBeforeInitialize ==
    ~Initialized =>
        /\ instance = EmptyInstance
        /\ tx = << >>
        /\ tx_approval = {}
        /\ transfers = << >>
        /\ events = << >>
        /\ last.op \in { "propose", "approve", "reject", "execute" } => last.err # OK

\* An authorized propose_transaction was refused by a contract that is not
\* initialized.
C29_Witness ==
    /\ ~Initialized
    /\ last.op = "propose" /\ last.auth /\ last.err = ErrUnwrapNone
    /\ tx = << >>

\* The roster names no account twice.
DistinctRoster == Cardinality(Range(Signers)) = Len(Signers)
\* What an authorized vote of a on id would end with in this state.
ApproveBy(a, id) == approve_transaction(Storage, a, id, TRUE, now).err
RejectBy(a, id, wraps) == reject_transaction(Storage, a, id, TRUE, wraps).err

\* C30: on a roster of distinct signers, for a transaction on which every
\* signer has at most one successful vote: while it is Pending and its
\* deadline has not passed, every signer who has not voted can approve and
\* can reject; when every signer has voted it is not Pending; once it is not
\* Pending it is Approved (or Executed) if its approvals reached
\* required_approvals and Rejected otherwise, and a vote of a signer who has
\* not voted fails with InvalidStatus ("tx not pending").
C30_DecisionResolves ==
    (Initialized /\ DistinctRoster) =>
        \A id \in DOMAIN tx :
            (\A a \in AllAccounts : Votes(id, a) <= 1) =>
                /\ (\A a \in Range(Signers) : Votes(id, a) = 1) => tx[id].status # "Pending"
                /\ tx[id].status # "Pending" =>
                      IF tx[id].approvals >= tx[id].required_approvals
                      THEN tx[id].status \in { "Approved", "Executed" }
                      ELSE tx[id].status = "Rejected"
                /\ \A a \in Range(Signers) : Votes(id, a) = 0 =>
                      IF tx[id].status # "Pending"
                      THEN /\ ApproveBy(a, id) = ErrNotPending
                           /\ \A wraps \in BOOLEAN : RejectBy(a, id, wraps) = ErrNotPending
                      ELSE now <= tx[id].expires_at =>
                              /\ ApproveBy(a, id) = OK
                              /\ \A wraps \in BOOLEAN : RejectBy(a, id, wraps) = OK

\* All three signers voted once, a rejection first; the last vote, an
\* approval, reached the quorum of two.
C30_Witness ==
    /\ Initialized /\ Signers = << "A", "B", "C" >> /\ Quorum = 2
    /\ last.op = "approve" /\ last.err = OK
    /\ last.tx_id \in DOMAIN tx
    /\ \A a \in Range(Signers) : Votes(last.tx_id, a) = 1
    /\ tx[last.tx_id].rejections = 1
    /\ tx[last.tx_id].approvals = 2
    /\ tx[last.tx_id].status = "Approved"

====
